---- MODULE Spec2Model ----
(***************************************************************************)
(* Model of the EnergyPlus co-simulation driver                            *)
(* (sinergym/simulators/eplus.py, class EnergyPlus): the listening socket, *)
(* the per-episode subprocess and accepted connection, the message codec   *)
(* and the reset / step / end_episode / end_env operations, together with  *)
(* the simulator peers that dial back to the driver.                       *)
(*                                                                         *)
(* Numbers are whole: elapsed times are whole seconds and observation and  *)
(* action values are whole numbers.  A wire line is a sequence of          *)
(* one-character strings.                                                  *)
(***************************************************************************)
EXTENDS Integers, Sequences, FiniteSets, TLC

(***************************************************************************)
(* Bounds of the model.                                                    *)
(***************************************************************************)
\* number of subprocesses the driver may spawn (number of resets that spawn)
MaxProcs == 2
\* number of connections the subprocesses may open to the listening socket
MaxConns == 2
\* largest elapsedTime a peer reports
MaxTime == 3
\* largest action repeat count the driver is constructed with
MaxActRepeat == 2
\* largest number n of observations a MultiObsWrapper stacks
MaxN == 3
\* number of steps taken on a MultiObsWrapper after a reset
MaxSteps == 4
\* number of distinct observations the wrapped environment returns
MaxObs == 2
\* number of summaries a LoggerWrapper records
MaxLog == 3
\* configured episode duration in seconds (self._eplus_one_epi_len)
EpiLen == 2

\* attribute of the driver object that has not been assigned yet
NoAttr == -1
\* Python None / no object (connection ids and pids start at 1)
None == 0

Min(S) == CHOOSE m \in S : \A n \in S : m <= n

(***************************************************************************)
(* Message codec: _assembleMsg and _disassembleMsg                         *)
(***************************************************************************)
Digits == <<"0", "1", "2", "3", "4", "5", "6", "7", "8", "9">>

DigitSet == {Digits[i] : i \in 1..10}

DigitVal(c) == (CHOOSE i \in 1..10 : Digits[i] = c) - 1

Whitespace == {" ", "\n", "\t", "\r"}

RECURSIVE Pow10(_)
Pow10(k) == IF k <= 0 THEN 1 ELSE 10 * Pow10(k - 1)

RECURSIVE Zeros(_)
Zeros(k) == IF k <= 0 THEN <<>> ELSE <<"0">> \o Zeros(k - 1)

\* decimal digits of a natural number, most significant first
RECURSIVE NatDigits(_)
NatDigits(n) ==
    IF n < 10 THEN <<Digits[n + 1]>>
    ELSE NatDigits(n \div 10) \o <<Digits[(n % 10) + 1]>>

\* '%d' % n
FmtD(n) == IF n < 0 THEN <<"-">> \o NatDigits(0 - n) ELSE NatDigits(n)

\* a whole number as its sign and its decimal digits, so that numbers of
\* more digits than the format keeps can be written down
Dec(x) == [neg |-> x < 0, digs |-> NatDigits(IF x < 0 THEN 0 - x ELSE x)]

RECURSIVE DecList(_)
DecList(xs) == IF xs = <<>> THEN <<>> ELSE <<Dec(Head(xs))>> \o DecList(Tail(xs))

\* the digits of n + 1 from the digits of n
RECURSIVE IncDigits(_)
IncDigits(ds) ==
    IF ds = <<>> THEN <<"1">>
    ELSE IF ds[Len(ds)] = "9"
    THEN IncDigits(SubSeq(ds, 1, Len(ds) - 1)) \o <<"0">>
    ELSE SubSeq(ds, 1, Len(ds) - 1) \o <<Digits[DigitVal(ds[Len(ds)]) + 2]>>

\* rounding to nearest, ties to even: whether the digits kept go up by one
\* for the digits cut off
RoundsUp(kept, rest) ==
    /\ rest # <<>>
    /\ \/ DigitVal(rest[1]) > 5
       \/ /\ rest[1] = "5"
          /\ \/ \E i \in 2..Len(rest) : rest[i] # "0"
             \/ DigitVal(kept[Len(kept)]) % 2 = 1

\* one digit, a point, fifteen digits, 'e', the sign of the exponent and at
\* least two exponent digits (the result is 21 characters or more, so the
\* width 20 never pads)
FmtEParts(neg, ds16, ex) ==
    (IF neg THEN <<"-">> ELSE <<>>)
    \o <<ds16[1], ".">> \o SubSeq(ds16, 2, 16) \o <<"e", "+">>
    \o (IF ex < 10 THEN <<"0">> ELSE <<>>) \o NatDigits(ex)

\* a carry out of the first digit moves the point
FmtECarried(neg, inc, ex) ==
    IF Len(inc) > 16 THEN FmtEParts(neg, SubSeq(inc, 1, 16), ex + 1)
    ELSE FmtEParts(neg, inc, ex)

\* sixteen significant digits are kept
FmtERounded(neg, ds, ex) ==
    IF Len(ds) <= 16 THEN FmtEParts(neg, ds \o Zeros(16 - Len(ds)), ex)
    ELSE IF RoundsUp(SubSeq(ds, 1, 16), SubSeq(ds, 17, Len(ds)))
    THEN FmtECarried(neg, IncDigits(SubSeq(ds, 1, 16)), ex)
    ELSE FmtEParts(neg, SubSeq(ds, 1, 16), ex)

\* '%20.15e' % d for a whole number d
FmtEDec(d) == FmtERounded(d.neg, d.digs, Len(d.digs) - 1)

\* '%20.15e' % x for a whole number x of the model's integers
FmtE(x) == FmtEDec(Dec(x))

\* the values written one after the other with a blank between them and
\* none after the last
RECURSIVE FmtValuesJoined(_)
FmtValuesJoined(Dblist) ==
    IF Dblist = <<>> THEN <<>>
    ELSE IF Len(Dblist) = 1 THEN FmtEDec(Head(Dblist))
    ELSE FmtEDec(Head(Dblist)) \o <<" ">> \o FmtValuesJoined(Tail(Dblist))

\* every value is followed by a blank
RECURSIVE FmtValues(_)
FmtValues(Dblist) ==
    IF Dblist = <<>> THEN <<>>
    ELSE FmtEDec(Head(Dblist)) \o <<" ">> \o FmtValues(Tail(Dblist))

\* _assembleMsg, the time and the values given digit by digit
assembleLine(version, flag, nDb, nIn, nBl, curSimTim, Dblist) ==
    FmtD(version) \o <<" ">> \o FmtD(flag) \o <<" ">> \o FmtD(nDb) \o <<" ">>
    \o FmtD(nIn) \o <<" ">> \o FmtD(nBl) \o <<" ">> \o FmtEDec(curSimTim)
    \o <<" ">> \o FmtValues(Dblist) \o <<"\n">>

\* _assembleMsg on numbers of the model's integers
assembleMsg(version, flag, nDb, nIn, nBl, curSimTim, Dblist) ==
    assembleLine(version, flag, nDb, nIn, nBl, Dec(curSimTim), DecList(Dblist))

\* str.split(' '): cut at every single blank, keeping empty fields
RECURSIVE Split(_)
Split(s) ==
    LET blanks == {i \in 1..Len(s) : s[i] = " "}
    IN  IF blanks = {} THEN <<s>>
        ELSE LET i == Min(blanks)
             IN  <<SubSeq(s, 1, i - 1)>> \o Split(SubSeq(s, i + 1, Len(s)))

\* str.strip() as applied by int() and float() to their argument
RECURSIVE LStrip(_)
LStrip(s) ==
    IF s # <<>> /\ Head(s) \in Whitespace THEN LStrip(Tail(s)) ELSE s

RECURSIVE RStrip(_)
RStrip(s) ==
    IF s # <<>> /\ s[Len(s)] \in Whitespace
    THEN RStrip(SubSeq(s, 1, Len(s) - 1)) ELSE s

Strip(s) == RStrip(LStrip(s))

IsDigits(s) == \A i \in 1..Len(s) : s[i] \in DigitSet

RECURSIVE DigitsVal(_)
DigitsVal(s) ==
    IF s = <<>> THEN 0
    ELSE 10 * DigitsVal(SubSeq(s, 1, Len(s) - 1)) + DigitVal(s[Len(s)])

RECURSIVE StripZerosRight(_)
StripZerosRight(s) ==
    IF s # <<>> /\ s[Len(s)] = "0"
    THEN StripZerosRight(SubSeq(s, 1, Len(s) - 1)) ELSE s

HasSign(s) == s # <<>> /\ Head(s) \in {"+", "-"}

Unsigned(s) == IF HasSign(s) THEN Tail(s) ELSE s

SignOf(s) == IF s # <<>> /\ Head(s) = "-" THEN 0 - 1 ELSE 1

\* int(token): blanks stripped, optional sign, one or more digits;
\* anything else raises ValueError (ok = FALSE)
PyInt(token) ==
    LET t == Strip(token)
        u == Unsigned(t)
    IN  IF u # <<>> /\ IsDigits(u)
        THEN [ok |-> TRUE, val |-> SignOf(t) * DigitsVal(u)]
        ELSE [ok |-> FALSE, val |-> 0]

\* index of the first character of s that is in chars, Len(s) + 1 if none
FirstOf(s, chars) ==
    LET hits == {i \in 1..Len(s) : s[i] \in chars}
    IN  IF hits = {} THEN Len(s) + 1 ELSE Min(hits)

RECURSIVE StripZerosLeft(_)
StripZerosLeft(s) ==
    IF s # <<>> /\ Head(s) = "0" THEN StripZerosLeft(Tail(s)) ELSE s

NotANumber == [ok |-> FALSE, whole |-> FALSE, val |-> 0,
               num |-> [neg |-> FALSE, digs |-> <<>>, exp |-> 0]]

\* the float sign * digs * 10^shift, digs without zeros at either end:
\* num is the number digit by digit, val its value when it is a whole
\* number (whole = TRUE) that the model's integers hold
FloatValue(sign, digs, shift) ==
    [ok |-> TRUE,
     whole |-> digs = <<>> \/ shift >= 0,
     val |-> IF digs = <<>> \/ Len(digs) > 9 \/ Len(digs) + shift > 9 THEN 0
             ELSE IF shift >= 0 THEN sign * DigitsVal(digs) * Pow10(shift)
             ELSE sign * (DigitsVal(digs) \div Pow10(0 - shift)),
     num |-> IF digs = <<>> THEN NotANumber.num
             ELSE [neg |-> sign < 0, digs |-> digs, exp |-> shift]]

\* digits: integer and fraction digits; lead: digits without the zeros at
\* the right; e: the exponent; flen: number of fraction digits
FloatLead(sign, digits, lead, e, flen) ==
    FloatValue(sign, StripZerosLeft(lead),
               e + (Len(digits) - Len(lead)) - flen)

FloatDigits(sign, ipart, f, e) ==
    FloatLead(sign, ipart \o f, StripZerosRight(ipart \o f), e, Len(f))

\* the syntax check: digits with an optional point, at least one digit,
\* and after an 'e' an optional sign and one or more digits
FloatChecked(sign, ipart, fpart, hasExp, expo) ==
    IF /\ IsDigits(ipart) /\ IsDigits(fpart)
       /\ Len(ipart) + Len(fpart) >= 1
       /\ ~hasExp \/ (Unsigned(expo) # <<>> /\ IsDigits(Unsigned(expo)))
    THEN FloatDigits(sign, ipart, StripZerosRight(fpart),
                     IF hasExp THEN SignOf(expo) * DigitsVal(Unsigned(expo))
                     ELSE 0)
    ELSE NotANumber

FloatMantissa(sign, mant, ppos, hasExp, expo) ==
    FloatChecked(sign, SubSeq(mant, 1, ppos - 1),
                 SubSeq(mant, ppos + 1, Len(mant)), hasExp, expo)

FloatSplit(sign, u, epos) ==
    FloatMantissa(sign, SubSeq(u, 1, epos - 1),
                  FirstOf(SubSeq(u, 1, epos - 1), {"."}),
                  epos <= Len(u), SubSeq(u, epos + 1, Len(u)))

FloatStripped(t) ==
    FloatSplit(SignOf(t), Unsigned(t), FirstOf(Unsigned(t), {"e", "E"}))

\* float(token): blanks stripped, optional sign, digits with an optional
\* point, optional exponent; anything else raises ValueError (ok = FALSE)
PyFloat(token) == FloatStripped(Strip(token))

RECURSIVE FloatList(_)
FloatList(toks) ==
    IF toks = <<>> THEN <<>>
    ELSE <<PyFloat(Head(toks)).val>> \o FloatList(Tail(toks))

\* the same list, each number digit by digit
RECURSIVE NumList(_)
NumList(toks) ==
    IF toks = <<>> THEN <<>>
    ELSE <<PyFloat(Head(toks)).num>> \o NumList(Tail(toks))

\* _disassembleMsg after the split: exc is the exception the call raises
\* ("none" when it returns), in the order in which the code evaluates the
\* fields; the values are the fields from the seventh to the last but one
disassembleFields(toks) ==
    LET hdrOk(i) == IF i = 6 THEN PyFloat(toks[i]).ok ELSE PyInt(toks[i]).ok
        bad    == {i \in 1..6 : i > Len(toks) \/ ~hdrOk(i)}
        vals   == SubSeq(toks, 7, Len(toks) - 1)
        badVal == \E i \in 1..Len(vals) : ~PyFloat(vals[i]).ok
    IN  IF bad # {}
        THEN [exc |-> IF Min(bad) > Len(toks) THEN "IndexError" ELSE "ValueError"]
        ELSE IF badVal THEN [exc |-> "ValueError"]
        ELSE [exc |-> "none",
              version |-> PyInt(toks[1]).val,
              flag |-> PyInt(toks[2]).val,
              nDb |-> PyInt(toks[3]).val,
              nIn |-> PyInt(toks[4]).val,
              nBl |-> PyInt(toks[5]).val,
              curSimTim |-> PyFloat(toks[6]).val,
              Dblist |-> FloatList(vals),
              exact |-> [curSimTim |-> PyFloat(toks[6]).num,
                         Dblist |-> NumList(vals)]]

\* a decoder that takes the empty string of a closed stream for a message
\* without fields
disassembleMsgLenient(rcv) ==
    IF Strip(rcv) = <<>>
    THEN [exc |-> "none", version |-> 0, flag |-> 0, nDb |-> 0, nIn |-> 0,
          nBl |-> 0, curSimTim |-> 0, Dblist |-> <<>>]
    ELSE disassembleFields(Split(rcv))

\* _disassembleMsg
disassembleMsg(rcv) == disassembleFields(Split(rcv))

(***************************************************************************)
(* State                                                                   *)
(***************************************************************************)
VARIABLES
    socket_open,        \* self._socket is bound and listening (not closed)
    episode_existed,    \* self._episode_existed
    epi_num,            \* self._epi_num
    act_repeat,         \* self._act_repeat
    last_action,        \* self._last_action
    eplus_msg_header,   \* self._eplus_msg_header: <<version, flag>>, <<>> = not assigned
    curSimTim,          \* self._curSimTim, NoAttr = not assigned
    conn,               \* self._conn: connection id, None, NoAttr = not assigned
    eplus_process,      \* self._eplus_process: pid, NoAttr = not assigned
    pc,                 \* position of the calling thread inside the driver
    frame,              \* local variables of the running call
    call,               \* the running (or last) call: operation, result
    procs,              \* spawned subprocesses, indexed by pid
    conns,              \* connections made to the listening socket
    backlog,            \* connections waiting in the listen queue, oldest first
    codec,              \* a direct call of the message codec: arguments, result
    drains,             \* per subprocess: its stdout and stderr pipes and
                        \* the thread that logs each of them
    logger,             \* LoggerWrapper: the episode summaries recorded
    multi               \* MultiObsWrapper: n and the history

vars == <<socket_open, episode_existed, epi_num, act_repeat, last_action,
          eplus_msg_header, curSimTim, conn, eplus_process, pc, frame,
          call, procs, conns, backlog, codec, drains, logger, multi>>

\* the state of the wrappers
wrappers == <<logger, multi>>

attrs == <<socket_open, episode_existed, epi_num, act_repeat, last_action,
           eplus_msg_header, curSimTim, conn, eplus_process>>

\* self._last_action as set by the constructor
DefaultAction == <<21, 25>>

\* actions a caller passes to step
Actions == {<<22>>}

NoHeader == <<>>

Times == 0..MaxTime

\* wire-format version the simulator reports
PeerVersion == 2

\* a well-formed line as the simulator writes it: header, one observation
\* value, every field followed by a blank, then the newline
PeerMsg(t) == assembleMsg(PeerVersion, 0, 1, 0, 0, t, <<20 + t>>)

\* a line that is not a message of the protocol
Garbage == <<"E", "r", "r", "\n">>

PeerLines == {PeerMsg(t) : t \in Times} \cup {Garbage}

\* the elapsedTime a peer wrote into a line, -1 for a line without one
LineTime(line) ==
    IF \E t \in Times : line = PeerMsg(t)
    THEN CHOOSE t \in Times : line = PeerMsg(t)
    ELSE 0 - 1

EmptyFrame ==
    [conn |-> None, curSimTim |-> 0, act_repeat_i |-> 0, action |-> <<>>,
     tosend |-> <<>>, caller |-> "none", cfg |-> FALSE]

\* call.kind: "running", "returned" or "raised"; exc: the exception raised;
\* isNone, time, Dblist, is_terminal: the value returned; spawned, accepted:
\* the subprocess a reset spawned and the connection it accepted; sends: the
\* number of messages the call has sent; rcvd: the elapsedTime, as the peer
\* wrote it, of each message the call has received and decoded
NewCall(o) ==
    [op |-> o, kind |-> "running", exc |-> "none", isNone |-> FALSE,
     time |-> 0, Dblist |-> <<>>, is_terminal |-> FALSE,
     spawned |-> None, accepted |-> None, sends |-> 0, rcvd |-> <<>>]

\* the driver holds an open accepted connection
ConnOpen == conn \notin {NoAttr, None} /\ conns[conn].drv = "open"

\* the state machine is Active: an episode exists, its connection is open
\* and the time cursor is below the episode duration
Active == episode_existed /\ ConnOpen /\ curSimTim # NoAttr /\ curSimTim < EpiLen

\* a pipe as Popen makes it, with the thread started to log it: buf is the
\* number of lines written and not yet read, drain the state of the thread
NewPipe == [buf |-> 0, drain |-> "running"]

\* no MultiObsWrapper is in use
NoMulti == [n |-> 0, history |-> <<>>, reset |-> FALSE, obs |-> None,
            steps |-> <<>>]

\* no direct call of the codec is made
NoCodec == [op |-> "none"]

DriverInit ==
    /\ socket_open = TRUE
    /\ episode_existed = FALSE
    /\ epi_num = 0
    /\ act_repeat \in 1..MaxActRepeat
    /\ last_action = DefaultAction
    /\ eplus_msg_header = NoHeader
    /\ curSimTim = NoAttr
    /\ conn = NoAttr
    /\ eplus_process = NoAttr
    /\ pc = "idle"
    /\ frame = EmptyFrame
    /\ call = [NewCall("none") EXCEPT !.kind = "returned", !.isNone = TRUE]
    /\ procs = <<>>
    /\ conns = <<>>
    /\ backlog = <<>>
    /\ drains = <<>>
    /\ logger = <<>>

Init == DriverInit /\ codec = NoCodec /\ multi = NoMulti

(***************************************************************************)
(* Socket and process primitives                                           *)
(***************************************************************************)
\* conn.recv(2048) returns once a line has arrived or the peer has closed;
\* until then the caller is blocked
RecvReady(c) == conns[c].inbox # <<>> \/ ~conns[c].peerOpen

\* what recv delivers: the next line, or the empty string at end of stream
RecvData(c) == IF conns[c].inbox # <<>> THEN Head(conns[c].inbox) ELSE <<>>

\* last is the driver's latest operation on the connection, heard the
\* elapsedTime of the latest message it received on it (-1: none yet)
AfterRecv(c) ==
    IF conns[c].inbox # <<>>
    THEN [conns EXCEPT ![c].inbox = Tail(@), ![c].last = "recv",
                       ![c].heard = IF LineTime(Head(conns[c].inbox)) >= 0
                                    THEN LineTime(Head(conns[c].inbox))
                                    ELSE @]
    ELSE [conns EXCEPT ![c].last = "recv"]

\* conn.send(data): succeeds while the peer is connected; after the peer
\* closed it succeeds (the data is dropped) or raises BrokenPipeError
SendResults(c) ==
    IF conns[c].peerOpen THEN {"none"} ELSE {"none", "BrokenPipeError"}

\* a line that was sent is the last line written on the connection
AfterSend(c, line) == [conns EXCEPT ![c].out = line, ![c].last = "send"]

\* close() of a connection: both directions are gone
Closed(c) ==
    [conns EXCEPT ![c] = [peer |-> None, drv |-> "closed", peerOpen |-> FALSE,
                          inbox |-> <<>>, out |-> <<>>, last |-> "close",
                          heard |-> 0 - 1]]

\* socket.close() of the listening socket: connections still in the listen
\* queue are reset
CloseListener(cs) ==
    [c \in 1..Len(cs) |->
        IF cs[c].drv = "pending" THEN Closed(c)[c] ELSE cs[c]]

\* the ends of the connections of a process that is gone are closed
Hangup(p) ==
    [c \in 1..Len(conns) |->
        IF conns[c].peer = p THEN [conns[c] EXCEPT !.peerOpen = FALSE]
        ELSE conns[c]]

\* os.killpg(pid, SIGTERM): every process of the group is terminated (the
\* simulator does not handle the signal)
Killed(p) ==
    [procs EXCEPT ![p] = [state |-> IF @.state = "running" THEN "exited" ELSE @.state,
                          signalled |-> TRUE, dialled |-> TRUE, cfg |-> @.cfg]]

\* the call in progress ends by raising e: its locals are gone
Raise(e) ==
    /\ pc' = "idle"
    /\ call' = [call EXCEPT !.kind = "raised", !.exc = e]
    /\ frame' = EmptyFrame

\* the call in progress returns None
ReturnNone ==
    /\ pc' = "idle"
    /\ call' = [call EXCEPT !.kind = "returned", !.isNone = TRUE]
    /\ frame' = EmptyFrame

\* the call in progress returns (time_info, Dblist, is_terminal) after
\* reading line
Return(t, obs, term, line) ==
    /\ pc' = "idle"
    /\ call' = [call EXCEPT !.kind = "returned", !.time = t, !.Dblist = obs,
                            !.is_terminal = term,
                            !.rcvd = Append(@, LineTime(line))]
    /\ frame' = EmptyFrame

(***************************************************************************)
(* _end_episode (entered at pc = "end_send1" by reset, end_episode and     *)
(* end_env; frame.caller tells where it returns to)                        *)
(***************************************************************************)
\* lines 371-380: build the terminate message and send it
EndSend1 ==
    /\ pc = "end_send1"
    /\ UNCHANGED <<codec, wrappers, drains, attrs, procs, backlog>>
    /\ IF eplus_msg_header = NoHeader \/ conn = None
       THEN Raise("AttributeError") /\ UNCHANGED conns
       ELSE LET tosend == assembleMsg(eplus_msg_header[1], 1, Len(last_action),
                                      0, 0, curSimTim, last_action)
            IN  \E e \in SendResults(conn) :
                  IF e # "none"
                  THEN Raise(e) /\ UNCHANGED conns
                  ELSE /\ pc' = "end_recv"
                       /\ frame' = [frame EXCEPT !.tosend = tosend]
                       /\ conns' = AfterSend(conn, tosend)
                       /\ call' = [call EXCEPT !.sends = @ + 1]

\* a teardown that does not wait for the acknowledgement
EndRecvSkipped ==
    /\ pc = "end_recv"
    /\ pc' = "end_send2"
    /\ UNCHANGED <<codec, wrappers, drains, attrs, frame, call, procs, conns, backlog>>

\* lines 381-383: wait for the final message of the simulator (it is logged,
\* not decoded)
EndRecv ==
    /\ pc = "end_recv"
    /\ RecvReady(conn)
    /\ conns' = AfterRecv(conn)
    /\ pc' = "end_send2"
    /\ UNCHANGED <<codec, wrappers, drains, attrs, frame, call, procs, backlog>>

\* a teardown that goes on to the close without repeating the message
EndSend2Skipped ==
    /\ pc = "end_send2"
    /\ pc' = "end_close"
    /\ UNCHANGED <<codec, wrappers, drains, attrs, frame, call, procs, conns, backlog>>

\* line 384: the same message is sent again
EndSend2 ==
    /\ pc = "end_send2"
    /\ UNCHANGED <<codec, wrappers, drains, attrs, procs, backlog>>
    /\ \E e \in SendResults(conn) :
         IF e # "none"
         THEN Raise(e) /\ UNCHANGED conns
         ELSE /\ pc' = "end_close"
              /\ conns' = AfterSend(conn, frame.tosend)
              /\ call' = [call EXCEPT !.sends = @ + 1]
              /\ UNCHANGED frame

\* a teardown that closes the listening socket with the connection
EndCloseAll ==
    /\ pc = "end_close"
    /\ conns' = CloseListener(Closed(conn))
    /\ conn' = None
    /\ socket_open' = FALSE
    /\ backlog' = <<>>
    /\ pc' = "end_kill"
    /\ UNCHANGED <<codec, wrappers, drains, episode_existed, epi_num, act_repeat, last_action,
                   eplus_msg_header, curSimTim, eplus_process, frame, call,
                   procs>>

\* lines 385-390: close the connection, forget it, sleep
EndClose ==
    /\ pc = "end_close"
    /\ conns' = Closed(conn)
    /\ conn' = None
    /\ pc' = "end_kill"
    /\ UNCHANGED <<codec, wrappers, drains, socket_open, episode_existed, epi_num, act_repeat, last_action,
                   eplus_msg_header, curSimTim, eplus_process, frame, call,
                   procs, backlog>>

\* lines 392-394: signal the process group, clear the flag, and return to
\* the caller: reset line 151-152 (prior episode: count the episode, go on
\* to spawn), reset line 228 (terminal handshake: return the tuple),
\* end_episode (return), end_env line 361 (close the listening socket,
\* return).  killpg raises ProcessLookupError when the process has exited
\* and has been reaped, so that its group no longer exists.
EndKill ==
    /\ pc = "end_kill"
    /\ UNCHANGED <<codec, wrappers, drains, act_repeat, last_action, eplus_msg_header, curSimTim, conn,
                   eplus_process>>
    /\ IF procs[eplus_process].state = "reaped"
       THEN /\ Raise("ProcessLookupError")
            /\ UNCHANGED <<socket_open, episode_existed, epi_num, procs, conns,
                           backlog>>
       ELSE /\ procs' = Killed(eplus_process)
            /\ episode_existed' = FALSE
            /\ CASE frame.caller = "reset_prior" ->
                      /\ epi_num' = epi_num + 1
                      /\ pc' = "reset_cfg"
                      /\ frame' = EmptyFrame
                      /\ conns' = Hangup(eplus_process)
                      /\ UNCHANGED <<socket_open, call, backlog>>
                 [] frame.caller = "reset_terminal" ->
                      /\ pc' = "idle"
                      /\ call' = [call EXCEPT !.kind = "returned"]
                      /\ frame' = EmptyFrame
                      /\ conns' = Hangup(eplus_process)
                      /\ UNCHANGED <<socket_open, epi_num, backlog>>
                 [] frame.caller = "end_episode" ->
                      /\ ReturnNone
                      /\ conns' = Hangup(eplus_process)
                      /\ UNCHANGED <<socket_open, epi_num, backlog>>
                 [] frame.caller = "end_env" ->
                      /\ ReturnNone
                      /\ socket_open' = FALSE
                      /\ conns' = CloseListener(Hangup(eplus_process))
                      /\ backlog' = <<>>
                      /\ UNCHANGED epi_num

(***************************************************************************)
(* reset                                                                   *)
(***************************************************************************)
\* The caller makes no further call once end_env has returned ("called
\* after finishing using the environment"): every call requires the
\* listening socket.
\*
\* lines 147-152: end the last episode if it exists.  The number of resets
\* is bounded by the number of subprocesses the model spawns.
SimReset ==
    /\ pc = "idle"
    /\ socket_open
    /\ Len(procs) < MaxProcs
    /\ call' = NewCall("reset")
    /\ IF episode_existed
       THEN /\ pc' = "end_send1"
            /\ frame' = [EmptyFrame EXCEPT !.caller = "reset_prior"]
       ELSE /\ pc' = "reset_cfg"
            /\ frame' = EmptyFrame
    /\ UNCHANGED <<codec, multi, drains, attrs, procs, conns, backlog>>

\* reset called on the driver itself
Reset == SimReset /\ UNCHANGED logger

\* a reset that goes on to the spawn without writing socket.cfg
ResetCfgSkipped ==
    /\ pc = "reset_cfg"
    /\ pc' = "reset_spawn"
    /\ UNCHANGED <<codec, wrappers, drains, attrs, frame, call, procs, conns, backlog>>

\* lines 154-169: the episode working directory is made and socket.cfg,
\* with the host and port of the listening socket, is written into it
\* (frame.cfg: the file exists in eplus_working_dir)
ResetCfg ==
    /\ pc = "reset_cfg"
    /\ frame' = [frame EXCEPT !.cfg = TRUE]
    /\ pc' = "reset_spawn"
    /\ UNCHANGED <<codec, wrappers, drains, attrs, call, procs, conns, backlog>>

\* lines 177-196: Popen in its own process group, run in the working
\* directory (cfg: socket.cfg was there when the subprocess started), the
\* two log threads
ResetSpawn ==
    /\ pc = "reset_spawn"
    /\ procs' = Append(procs, [state |-> "running", signalled |-> FALSE,
                                dialled |-> FALSE, cfg |-> frame.cfg])
    /\ drains' = Append(drains, [out |-> NewPipe, err |-> NewPipe])
    /\ eplus_process' = Len(procs) + 1
    /\ call' = [call EXCEPT !.spawned = Len(procs) + 1]
    /\ pc' = "reset_accept"
    /\ UNCHANGED <<codec, wrappers, socket_open, episode_existed, epi_num, act_repeat, last_action,
                   eplus_msg_header, curSimTim, conn, frame, conns, backlog>>

\* line 200: self._socket.accept() takes the oldest connection of the listen
\* queue and blocks (no timeout is set) while the queue is empty
ResetAccept ==
    /\ pc = "reset_accept"
    /\ backlog # <<>>
    /\ LET c == Head(backlog)
       IN  /\ conns' = [conns EXCEPT ![c].drv = "open"]
           /\ backlog' = Tail(backlog)
           /\ frame' = [frame EXCEPT !.conn = c]
           /\ call' = [call EXCEPT !.accepted = c]
    /\ pc' = "reset_recv"
    /\ UNCHANGED <<codec, wrappers, drains, attrs, procs>>

\* a terminal test that lets the cursor reach the duration
ResetIsTerminalStrict(t) == t > EpiLen

\* line 217: is_terminal = curSimTim >= self._eplus_one_epi_len
ResetIsTerminal(t) == t >= EpiLen

\* lines 203-228: read and decode the first message, record header and time
\* cursor, adopt the connection, mark the episode; tear down at once when
\* the handshake is already terminal
ResetRecv ==
    /\ pc = "reset_recv"
    /\ RecvReady(frame.conn)
    /\ conns' = AfterRecv(frame.conn)
    /\ UNCHANGED <<codec, wrappers, drains, socket_open, epi_num, act_repeat, last_action, eplus_process,
                   procs, backlog>>
    /\ LET rcv_1st == RecvData(frame.conn)
           d == disassembleMsg(rcv_1st)
       IN  IF d.exc # "none"
           THEN /\ Raise(d.exc)
                /\ UNCHANGED <<episode_existed, eplus_msg_header, curSimTim, conn>>
           ELSE /\ eplus_msg_header' = <<d.version, d.flag>>
                /\ curSimTim' = d.curSimTim
                /\ conn' = frame.conn
                /\ episode_existed' = TRUE
                /\ IF ResetIsTerminal(d.curSimTim)
                   THEN /\ pc' = "end_send1"
                        /\ frame' = [EmptyFrame EXCEPT !.caller = "reset_terminal"]
                        /\ call' = [call EXCEPT !.time = d.curSimTim,
                                                !.Dblist = d.Dblist,
                                                !.is_terminal = TRUE,
                                                !.rcvd = Append(@, LineTime(rcv_1st))]
                   ELSE Return(d.curSimTim, d.Dblist, FALSE, rcv_1st)

(***************************************************************************)
(* step                                                                    *)
(***************************************************************************)
\* lines 246-254: the terminal check (reading self._curSimTim before any
\* reset raises AttributeError) and the loop variables
Step ==
    /\ pc = "idle"
    /\ socket_open
    /\ \E action \in Actions :
         IF curSimTim = NoAttr
         THEN /\ pc' = "idle"
              /\ call' = [NewCall("step") EXCEPT !.kind = "raised",
                                                 !.exc = "AttributeError"]
              /\ frame' = EmptyFrame
         ELSE IF curSimTim >= EpiLen
         THEN /\ pc' = "idle"
              /\ call' = [NewCall("step") EXCEPT !.kind = "returned",
                                                 !.isNone = TRUE]
              /\ frame' = EmptyFrame
         ELSE /\ pc' = "step_send"
              /\ call' = NewCall("step")
              /\ frame' = [EmptyFrame EXCEPT !.curSimTim = curSimTim,
                                             !.action = action]
    /\ UNCHANGED <<codec, wrappers, drains, attrs, procs, conns, backlog>>

\* a step that sends its actions under the terminate flag
StepSendFlagOne ==
    /\ pc = "step_send"
    /\ conn # None
    /\ pc' = "step_recv"
    /\ conns' = AfterSend(conn, assembleMsg(eplus_msg_header[1], 1,
                                            Len(frame.action), 0, 0,
                                            frame.curSimTim, frame.action))
    /\ call' = [call EXCEPT !.sends = @ + 1]
    /\ UNCHANGED <<codec, wrappers, drains, attrs, procs, backlog, frame>>

\* lines 256-262: one pass of the loop, up to the send
StepSend ==
    /\ pc = "step_send"
    /\ UNCHANGED <<codec, wrappers, drains, attrs, procs, backlog>>
    /\ LET tosend == assembleMsg(eplus_msg_header[1], 0, Len(frame.action),
                                 0, 0, frame.curSimTim, frame.action)
       IN  IF conn = None
           THEN Raise("AttributeError") /\ UNCHANGED conns
           ELSE \E e \in SendResults(conn) :
                  IF e # "none"
                  THEN Raise(e) /\ UNCHANGED conns
                  ELSE /\ pc' = "step_recv"
                       /\ conns' = AfterSend(conn, tosend)
                       /\ call' = [call EXCEPT !.sends = @ + 1]
                       /\ UNCHANGED frame

\* a terminal test that lets the cursor reach the duration
StepIsTerminalStrict(t) == t > EpiLen

\* line 269: if curSimTim >= self._eplus_one_epi_len: is_terminal = True
StepIsTerminal(t) == t >= EpiLen

\* a loop that goes on repeating the action after a terminal response
StepLoopIgnoringTerminal(act_repeat_i, is_terminal) ==
    act_repeat_i < act_repeat

\* line 256: while act_repeat_i < self._act_repeat and (not is_terminal)
StepLoop(act_repeat_i, is_terminal) ==
    act_repeat_i < act_repeat /\ ~is_terminal

\* a return that retires the episode when the response was terminal
StepReturnRetiring(d, is_terminal, rcv) ==
    /\ curSimTim' = d.curSimTim
    /\ last_action' = frame.action
    /\ episode_existed' = (episode_existed /\ ~is_terminal)
    /\ conn' = IF is_terminal THEN None ELSE conn
    /\ Return(d.curSimTim, d.Dblist, is_terminal, rcv)

\* a return that stores the cursor of the exchange before the last one
StepReturnStaleCursor(d, is_terminal, rcv) ==
    /\ curSimTim' = frame.curSimTim
    /\ last_action' = frame.action
    /\ Return(d.curSimTim, d.Dblist, is_terminal, rcv)
    /\ UNCHANGED <<episode_existed, conn>>

\* lines 274-286: build the returned list, store the cursor and the action;
\* the connection, the subprocess and the flag are left as they are
StepReturn(d, is_terminal, rcv) ==
    /\ curSimTim' = d.curSimTim
    /\ last_action' = frame.action
    /\ Return(d.curSimTim, d.Dblist, is_terminal, rcv)
    /\ UNCHANGED <<episode_existed, conn>>

\* lines 263-286: receive and decode the response, test for the end of the
\* episode, loop again or store the cursor and the action and return
StepRecv ==
    /\ pc = "step_recv"
    /\ RecvReady(conn)
    /\ conns' = AfterRecv(conn)
    /\ UNCHANGED <<codec, wrappers, drains, socket_open, epi_num, act_repeat, eplus_msg_header,
                   eplus_process, procs, backlog>>
    /\ LET rcv == RecvData(conn)
           d == disassembleMsg(rcv)
       IN  IF d.exc # "none"
           THEN /\ Raise(d.exc)
                /\ UNCHANGED <<curSimTim, last_action, episode_existed, conn>>
           ELSE LET is_terminal == StepIsTerminal(d.curSimTim)
                    act_repeat_i == frame.act_repeat_i + 1
                IN  IF StepLoop(act_repeat_i, is_terminal)
                    THEN /\ pc' = "step_send"
                         /\ frame' = [frame EXCEPT !.curSimTim = d.curSimTim,
                                                   !.act_repeat_i = act_repeat_i]
                         /\ call' = [call EXCEPT !.rcvd = Append(@, LineTime(rcv))]
                         /\ UNCHANGED <<curSimTim, last_action, episode_existed,
                                        conn>>
                    ELSE StepReturn(d, is_terminal, rcv)

(***************************************************************************)
(* end_episode, end_env, get_is_eplus_running                              *)
(***************************************************************************)
\* lines 363-364
EndEpisode ==
    /\ pc = "idle"
    /\ socket_open
    /\ call' = NewCall("end_episode")
    /\ pc' = "end_send1"
    /\ frame' = [EmptyFrame EXCEPT !.caller = "end_episode"]
    /\ UNCHANGED <<codec, wrappers, drains, attrs, procs, conns, backlog>>

\* lines 356-361 (EplusEnv.close calls it)
SimEndEnv ==
    /\ pc = "idle"
    /\ socket_open
    /\ call' = NewCall("end_env")
    /\ pc' = "end_send1"
    /\ frame' = [EmptyFrame EXCEPT !.caller = "end_env"]
    /\ UNCHANGED <<codec, multi, drains, attrs, procs, conns, backlog>>

\* end_env called on the driver itself
EndEnv == SimEndEnv /\ UNCHANGED logger

\* lines 347-354: poll() reaps the subprocess once it has exited (a getter:
\* it is not recorded as the last call)
GetIsEplusRunning ==
    /\ pc = "idle"
    /\ socket_open
    /\ eplus_process # NoAttr
    /\ procs[eplus_process].state = "exited"
    /\ procs' = [procs EXCEPT ![eplus_process].state = "reaped"]
    /\ UNCHANGED <<codec, wrappers, drains, attrs, pc, frame, call, conns, backlog>>

(***************************************************************************)
(* The simulator peers and the runtime                                     *)
(***************************************************************************)
\* a running subprocess dials the host and port it reads in socket.cfg
PeerConnect(p) ==
    /\ procs[p].state = "running"
    /\ procs[p].cfg
    /\ Len(conns) < MaxConns
    /\ socket_open
    /\ procs' = [procs EXCEPT ![p].dialled = TRUE]
    /\ conns' = Append(conns, [peer |-> p, drv |-> "pending", peerOpen |-> TRUE,
                               inbox |-> <<>>, out |-> <<>>, last |-> "none",
                               heard |-> 0 - 1])
    /\ backlog' = Append(backlog, Len(conns) + 1)
    /\ UNCHANGED <<codec, wrappers, drains, attrs, pc, frame, call>>

\* the connection on which the calling thread is blocked in recv, or None
Reading ==
    IF pc = "reset_recv" THEN frame.conn
    ELSE IF pc \in {"step_recv", "end_recv"} THEN conn
    ELSE None

\* a peer writes a line on its connection.  Lines are delivered in order
\* and the driver reads one line per recv, so a line written earlier is
\* read exactly like one written while the driver waits: the peer writes
\* when the driver is waiting for it.
PeerSend(c) ==
    /\ c = Reading
    /\ conns[c].peerOpen
    /\ conns[c].inbox = <<>>
    /\ \E line \in PeerLines : conns' = [conns EXCEPT ![c].inbox = <<line>>]
    /\ UNCHANGED <<codec, wrappers, drains, attrs, pc, frame, call, procs, backlog>>

\* a simulator that follows the protocol answers the driver with a
\* well-formed line: elapsedTime 0 in the handshake, then one more than in
\* its last line
PeerReply(c) ==
    /\ c = Reading
    /\ conns[c].peerOpen
    /\ conns[c].inbox = <<>>
    /\ conns' = [conns EXCEPT ![c].inbox =
                    <<PeerMsg(IF conns[c].heard < 0 THEN 0
                              ELSE Min({conns[c].heard + 1, MaxTime}))>>]
    /\ UNCHANGED <<codec, wrappers, drains, attrs, pc, frame, call, procs, backlog>>

\* a subprocess exits by itself or crashes: its ends of its connections
\* are closed.  (A simulator that closes its socket and lives on shows to
\* the driver like one that has exited and has not been reaped.)
PeerExit(p) ==
    /\ procs[p].state = "running"
    /\ procs' = [procs EXCEPT ![p].state = "exited"]
    /\ conns' = Hangup(p)
    /\ UNCHANGED <<codec, wrappers, drains, attrs, pc, frame, call, backlog>>

\* an accepted socket object that nothing refers to any more (the local
\* conn of a reset that raised) is closed when it is collected
Finalize(c) ==
    /\ conns[c].drv = "open"
    /\ c # conn
    /\ c # frame.conn
    /\ conns' = Closed(c)
    /\ UNCHANGED <<codec, wrappers, drains, attrs, pc, frame, call, procs, backlog>>

(***************************************************************************)
(* The output of the subprocesses and the threads that log it              *)
(***************************************************************************)
MaxPipe == 1

Streams == {"out", "err"}

\* a running subprocess writes a line on its standard output or its
\* standard error; a pipe holds a bounded number of lines
ProcWrite(p, s) ==
    /\ procs[p].state = "running"
    /\ drains[p][s].buf < MaxPipe
    /\ drains' = [drains EXCEPT ![p][s].buf = @ + 1]
    /\ UNCHANGED <<codec, wrappers, attrs, pc, frame, call, procs, conns, backlog>>

\* a thread that stops at its first line
DrainReadOnce(p, s) ==
    /\ drains[p][s].drain = "running"
    /\ drains[p][s].buf > 0
    /\ drains' = [drains EXCEPT ![p][s].buf = @ - 1, ![p][s].drain = "done"]
    /\ UNCHANGED <<codec, wrappers, attrs, pc, frame, call, procs, conns, backlog>>

\* lines 339-345: readline returns a line, which is handed to the logger
DrainRead(p, s) ==
    /\ drains[p][s].drain = "running"
    /\ drains[p][s].buf > 0
    /\ drains' = [drains EXCEPT ![p][s].buf = @ - 1]
    /\ UNCHANGED <<codec, wrappers, attrs, pc, frame, call, procs, conns, backlog>>

\* lines 340 and 344: readline returns b'' once the pipe is empty and every
\* process that could write to it is gone; the loop and the thread end
DrainEnd(p, s) ==
    /\ drains[p][s].drain = "running"
    /\ drains[p][s].buf = 0
    /\ procs[p].state # "running"
    /\ drains' = [drains EXCEPT ![p][s].drain = "done"]
    /\ UNCHANGED <<codec, wrappers, attrs, pc, frame, call, procs, conns, backlog>>

Drains ==
    \E p \in 1..Len(procs) : \E s \in Streams :
        ProcWrite(p, s) \/ DrainRead(p, s) \/ DrainEnd(p, s)

Driver ==
    \/ Reset \/ ResetCfg \/ ResetSpawn \/ ResetAccept \/ ResetRecv
    \/ Step \/ StepSend \/ StepRecv
    \/ EndEpisode \/ EndEnv \/ GetIsEplusRunning
    \/ EndSend1 \/ EndRecv \/ EndSend2 \/ EndClose \/ EndKill

Peers ==
    \/ \E p \in 1..Len(procs) : PeerConnect(p) \/ PeerExit(p)
    \/ \E c \in 1..Len(conns) :
         \/ Finalize(c)
         \/ PeerSend(c)

Next == Driver \/ Peers

Spec == Init /\ [][Next]_vars

\* accept() returns once a connection waits in the listen queue.  Nothing
\* obliges the caller to make a call, a peer to dial, to write or to exit,
\* or the runtime to collect a socket.
FairSpec == Init /\ [][Next]_vars /\ WF_vars(ResetAccept)

\* the driver, simulators that follow the protocol until they exit, and
\* the log threads, in every interleaving
DrainPeers ==
    \/ \E p \in 1..Len(procs) : PeerConnect(p) \/ PeerExit(p)
    \/ \E c \in 1..Len(conns) :
         \/ Finalize(c)
         \/ PeerReply(c)

DrainNext == Driver \/ DrainPeers \/ Drains

\* the driver as EplusEnv constructs it, with the default act_repeat
DrainInit == Init /\ act_repeat = 1

DrainSpec == DrainInit /\ [][DrainNext]_vars

(***************************************************************************)
(* The codec called on its own: _assembleMsg on arguments, _disassembleMsg *)
(* on a line of text, with the driver left as constructed                  *)
(***************************************************************************)
MaxTokens == 8
MaxValues == 2

\* fields a peer may write: "1" is read by int() and by float(), "20.0" by
\* float() only, "a" by neither
IntTokens == {<<"1">>}

FloatTokens == IntTokens \cup {<<"2", "0", ".", "0">>}

Tokens == FloatTokens \cup {<<"a">>}

\* what may follow the last field of a line
Endings == {<<>>, <<"\n">>, <<" ", "\n">>}

TokenSeqs == UNION {[1..n -> Tokens] : n \in 0..MaxTokens}

\* ' '.join(toks)
RECURSIVE Join(_)
Join(toks) ==
    IF toks = <<>> THEN <<>>
    ELSE IF Len(toks) = 1 THEN toks[1]
    ELSE toks[1] \o <<" ">> \o Join(Tail(toks))

\* the value of a field of FloatTokens
TokenValue(tok) == IF tok = <<"1">> THEN 1 ELSE 20

TokenValues(toks) == [i \in 1..Len(toks) |-> TokenValue(toks[i])]

CodecVersions == {0, 2}

CodecFlags == {0, 1}

\* whole numbers of seventeen digits, which doubles hold: 10^16 + 2 and
\* 10^16 + 6
Seventeen == {[neg |-> FALSE, digs |-> <<"1">> \o Zeros(15) \o <<"2">>],
              [neg |-> FALSE, digs |-> <<"1">> \o Zeros(15) \o <<"6">>]}

\* a whole number of sixteen digits: 10^15 + 2
Sixteen == {[neg |-> FALSE, digs |-> <<"1">> \o Zeros(14) \o <<"2">>]}

CodecTimes == {Dec(t) : t \in Times} \cup Sixteen \cup Seventeen

CodecValues == {Dec(0), Dec(21), Dec(0 - 5)} \cup Seventeen

ValueLists == UNION {[1..n -> CodecValues] : n \in 0..MaxValues}

NoMsg == [exc |-> "pending"]

AssembleInputs ==
    {[op |-> "assemble",
      src |-> [kind |-> "args", version |-> v, flag |-> f, curSimTim |-> t,
               Dblist |-> d],
      line |-> <<>>, msg |-> NoMsg] :
        v \in CodecVersions, f \in CodecFlags, t \in CodecTimes,
        d \in ValueLists}

DisassembleInputs ==
    {[op |-> "disassemble",
      src |-> [kind |-> "text", tokens |-> toks, ending |-> e],
      line |-> Join(toks) \o e, msg |-> NoMsg] :
        toks \in TokenSeqs, e \in Endings}

CodecInit ==
    /\ DriverInit
    /\ multi = NoMulti
    /\ codec \in AssembleInputs \cup DisassembleInputs

\* _assembleMsg(version, flag, len(Dblist), 0, 0, curSimTim, Dblist)
Assemble ==
    /\ codec.op = "assemble"
    /\ codec' = [codec EXCEPT
                   !.op = "disassemble",
                   !.line = assembleLine(codec.src.version, codec.src.flag,
                                         Len(codec.src.Dblist), 0, 0,
                                         codec.src.curSimTim, codec.src.Dblist)]
    /\ UNCHANGED <<drains, wrappers, attrs, pc, frame, call, procs, conns, backlog>>

\* _disassembleMsg(line)
Disassemble ==
    /\ codec.op = "disassemble"
    /\ codec' = [codec EXCEPT !.op = "done", !.msg = disassembleMsg(codec.line)]
    /\ UNCHANGED <<drains, wrappers, attrs, pc, frame, call, procs, conns, backlog>>

CodecNext == Assemble \/ Disassemble

CodecSpec == CodecInit /\ [][CodecNext]_vars

(***************************************************************************)
(* MultiObsWrapper (utils/wrappers.py): a stack of the last n observations *)
(* of the environment it wraps.  The wrapped environment is the argument   *)
(* of the constructor; here it is any environment, which returns one of    *)
(* the observations 1..MaxObs from reset and from step.  multi.history is  *)
(* the deque; multi.reset, multi.obs and multi.steps remember whether      *)
(* reset has been called, what the latest reset's env.reset() returned and *)
(* what env.step() returned at each step since.                            *)
(***************************************************************************)
Observations == 1..MaxObs

\* deque(maxlen=n).append(x): the oldest entry falls off a full deque
DequeAppend(history, n, x) ==
    IF n = 0 THEN <<>>
    ELSE IF Len(history) = n THEN Append(Tail(history), x)
    ELSE Append(history, x)

\* for _ in range(times): history.append(x)
RECURSIVE AppendTimes(_, _, _, _)
AppendTimes(history, n, x, times) ==
    IF times = 0 THEN history
    ELSE AppendTimes(DequeAppend(history, n, x), n, x, times - 1)

\* lines 70-85: self.n = n, self.history = deque([], maxlen=n)
MultiObsWrapper(n) ==
    [n |-> n, history |-> <<>>, reset |-> FALSE, obs |-> None, steps |-> <<>>]

\* a reset that appends the initial observation once
MultiResetOnce(obs) ==
    /\ multi' = [multi EXCEPT !.history = DequeAppend(@, multi.n, obs),
                              !.reset = TRUE, !.obs = obs, !.steps = <<>>]
    /\ UNCHANGED <<codec, drains, logger, attrs, pc, frame, call, procs,
                   conns, backlog>>

\* lines 87-96: obs = self.env.reset(), appended n times
MultiReset(obs) ==
    /\ multi' = [multi EXCEPT
                    !.history = AppendTimes(@, multi.n, obs, multi.n),
                    !.reset = TRUE, !.obs = obs, !.steps = <<>>]
    /\ UNCHANGED <<codec, drains, logger, attrs, pc, frame, call, procs,
                   conns, backlog>>

\* lines 98-103: the observation of self.env.step(action) is appended
MultiStep(observation) ==
    /\ Len(multi.steps) < MaxSteps
    /\ multi' = [multi EXCEPT
                    !.history = DequeAppend(@, multi.n, observation),
                    !.steps = Append(@, observation)]
    /\ UNCHANGED <<codec, drains, logger, attrs, pc, frame, call, procs,
                   conns, backlog>>

\* lines 105-114: the stacked observation the wrapper returns
get_obs == multi.history

MultiInit ==
    /\ DriverInit
    /\ codec = NoCodec
    /\ multi \in {MultiObsWrapper(n) : n \in 1..MaxN}

MultiNext ==
    \/ \E obs \in Observations : MultiReset(obs)
    \/ \E observation \in Observations : MultiStep(observation)

MultiSpec == MultiInit /\ [][MultiNext]_vars

(***************************************************************************)
(* LoggerWrapper (utils/wrappers.py) around the environment that owns the  *)
(* driver: the caller uses reset, step and close of the wrapper only.      *)
(* logger is the sequence of episode summaries recorded so far; each keeps *)
(* the index it was tagged with and, to tell episodes apart, the           *)
(* subprocess the driver referred to when it was recorded.                 *)
(***************************************************************************)
\* self.logger.log_episode(episode=self.env.simulator._epi_num)
log_episode(episode) ==
    Append(logger, [episode |-> episode, proc |-> eplus_process])

\* lines 201-232: the summary of the last episode, then self.env.reset()
LoggerReset ==
    /\ Len(logger) < MaxLog
    /\ logger' = IF episode_existed THEN log_episode(epi_num) ELSE logger
    /\ SimReset

\* lines 160-199: self.env.step(action); the rows it logs are steps, not
\* summaries
LoggerStep == Step

\* lines 234-243: the summary of the last episode, then self.env.close()
LoggerClose ==
    /\ Len(logger) < MaxLog
    /\ logger' = log_episode(epi_num)
    /\ SimEndEnv

\* the statements of reset, step and _end_episode that a call goes through
Running ==
    \/ ResetCfg \/ ResetSpawn \/ ResetAccept \/ ResetRecv
    \/ StepSend \/ StepRecv
    \/ EndSend1 \/ EndRecv \/ EndSend2 \/ EndClose \/ EndKill

LoggerNext ==
    \/ LoggerReset \/ LoggerStep \/ LoggerClose
    \/ Running
    \/ Peers

LoggerSpec == Init /\ [][LoggerNext]_vars

(***************************************************************************)
(* Properties                                                              *)
(***************************************************************************)
\* C1: at every instant at most one accepted connection is open and at most
\* one spawned subprocess is live without having been sent a termination
\* signal, whatever calls were made and whatever the peers did.
C1AtMostOneLive ==
    /\ Cardinality({c \in 1..Len(conns) : conns[c].drv = "open"}) <= 1
    /\ Cardinality({p \in 1..Len(procs) :
                        procs[p].state = "running" /\ ~procs[p].signalled}) <= 1

C3NoOpWhenNotActive ==
    [][(Step /\ ~Active)
        => (pc' = "idle" /\ call'.kind = "returned" /\ call'.isNone
            /\ conns' = conns)]_vars

\* C4: after every reset that returns, the time cursor is the elapsedTime
\* the peer wrote in the handshake message; the state machine is Active on
\* the connection this reset accepted, unless that elapsedTime reached the
\* duration: then teardown has run inside reset (connection closed,
\* subprocess signalled, flag cleared) and the state machine is Idle.
C4AfterReset ==
    (pc = "idle" /\ call.op = "reset" /\ call.kind = "returned")
    => /\ Len(call.rcvd) = 1
       /\ curSimTim = call.rcvd[1]
       /\ IF call.rcvd[1] >= EpiLen
          THEN /\ ~episode_existed
               /\ conn = None
               /\ conns[call.accepted].drv = "closed"
               /\ procs[call.spawned].signalled
          ELSE /\ Active
               /\ conn = call.accepted

\* a reset has returned whose handshake had already reached the duration
C4Witness ==
    /\ pc = "idle" /\ call.op = "reset" /\ call.kind = "returned"
    /\ call.rcvd = <<EpiLen>>
    /\ call.sends = 2

\* C5: the terminal flag a step call returns is true exactly when the last
\* response received within the call carries an elapsedTime that reached
\* the duration.
C5TerminalFlag ==
    (pc = "idle" /\ call.op = "step" /\ call.kind = "returned" /\ ~call.isNone)
    => /\ call.rcvd # <<>>
       /\ call.is_terminal <=> (call.rcvd[Len(call.rcvd)] >= EpiLen)
       /\ call.time = call.rcvd[Len(call.rcvd)]

\* with action repeat 1, a step has returned terminal on the response that
\* is exactly at the duration
C5Witness ==
    /\ pc = "idle" /\ call.op = "step" /\ call.kind = "returned"
    /\ act_repeat = 1
    /\ call.rcvd = <<EpiLen>>
    /\ call.is_terminal

\* C6: a step call on an Active episode that returns has made exactly
\* min(act_repeat, k) exchanges, k the index of the first response that
\* reached the duration, and the cursor is the elapsedTime of the last
\* response; no step call, returning or not, sends an action after a
\* response that reached the duration.
C6Exchanges ==
    /\ (pc = "idle" /\ call.op = "step" /\ call.kind = "returned" /\ ~call.isNone)
       => LET n == Len(call.rcvd)
              K == {i \in 1..n : call.rcvd[i] >= EpiLen}
          IN  /\ call.sends = n
              /\ n = IF K = {} THEN act_repeat ELSE Min({act_repeat} \cup K)
              /\ curSimTim = call.rcvd[n]
    /\ call.op = "step"
       => /\ call.sends <= Len(call.rcvd) + 1
          /\ \A i \in 1..Len(call.rcvd) : i < call.sends => call.rcvd[i] < EpiLen

\* with action repeat 2, a step has returned after one exchange because
\* the first response reached the duration
C6Witness ==
    /\ pc = "idle" /\ call.op = "step" /\ call.kind = "returned"
    /\ act_repeat = 2
    /\ Len(call.rcvd) = 1
    /\ call.sends = 1

\* C7 as stated: every step call that performs an exchange and returns
\* leaves the time cursor strictly above its value before the call, for
\* every sequence of decodable responses.
C7StrictlyIncreasing ==
    [][(pc = "step_recv" /\ pc' = "idle" /\ call'.kind = "returned")
        => curSimTim' > curSimTim]_vars

\* C7 as amended: the cursor changes only when reset reads the handshake or
\* a step call returns; a step call that returns sets it to the elapsedTime
\* of the last response it received, whether or not that is above the
\* former cursor (the responses are not compared with the cursor), so the
\* cursor increases exactly as far as the peer's elapsedTime does; and the
\* cursor passes the duration by one response only: the cursor before the
\* call and every response before the last one are below the duration.
C7CursorFollowsPeer ==
    [][/\ (curSimTim' # curSimTim) => pc \in {"reset_recv", "step_recv"}
       /\ (pc = "step_recv" /\ pc' = "idle" /\ call'.kind = "returned")
          => LET r == call'.rcvd
             IN  /\ curSimTim' = r[Len(r)]
                 /\ curSimTim < EpiLen
                 /\ \A i \in 1..(Len(r) - 1) : r[i] < EpiLen]_vars

\* a step call has returned with the cursor at 0: the response did not
\* carry the cursor forward
C7Witness ==
    /\ pc = "idle" /\ call.op = "step" /\ call.kind = "returned"
    /\ ~call.isNone
    /\ curSimTim = 0

\* C8: once the peer has closed the connection and nothing it wrote is left
\* to read, a step call is never blocked (its next send or receive can be
\* taken) and it can only end by raising: it does not return a result.
C8ClosedPeerFails ==
    /\ []((pc \in {"step_send", "step_recv"} /\ ConnOpen
            /\ ~conns[conn].peerOpen /\ conns[conn].inbox = <<>>)
          => ENABLED (StepSend \/ StepRecv))
    /\ [][(pc \in {"step_send", "step_recv"} /\ ConnOpen
            /\ ~conns[conn].peerOpen /\ conns[conn].inbox = <<>>
            /\ pc' = "idle")
          => call'.kind = "raised"]_vars

\* a step call on a connection the peer closed after the handshake has
\* sent its action, read the end of the stream and raised
C8Witness ==
    /\ pc = "idle" /\ call.op = "step" /\ call.kind = "raised"
    /\ call.exc = "ValueError"
    /\ call.sends = 1 /\ call.rcvd = <<>>
    /\ ConnOpen /\ ~conns[conn].peerOpen
    /\ procs[eplus_process].state = "exited"

\* C9: a reset that waits for the connection of the subprocess it spawned
\* does not wait forever: when no peer connects it ends (with an error).
C9AcceptTimesOut ==
    (pc = "reset_accept" /\ backlog = <<>>) ~> (pc # "reset_accept")

\* C10: when a reset raises after it has spawned its subprocess, that
\* subprocess has been sent a termination signal and the connection the
\* reset accepted, if any, has been closed.
C10FailedResetCleansUp ==
    (pc = "idle" /\ call.op = "reset" /\ call.kind = "raised"
        /\ call.spawned # None)
    => /\ procs[call.spawned].signalled
       /\ call.accepted # None => conns[call.accepted].drv = "closed"

\* C11: when an exchange inside step fails (the response does not decode,
\* or the peer is gone), teardown has been attempted before the error
\* reaches the caller: after the failed step the state machine is Idle, so
\* that the next reset starts from a clean state and can bring up a new
\* peer.
C11StepFailureTornDown ==
    (pc = "idle" /\ call.op = "step" /\ call.kind = "raised"
        /\ call.exc # "AttributeError")
    => (~episode_existed /\ ~ConnOpen /\ procs[eplus_process].signalled)

\* C12: a teardown of an existing episode, whichever of its steps fails,
\* ends without raising, with the episode-exists flag false and no open
\* connection held.
C12TeardownNeverRaises ==
    [][(pc \in {"end_send1", "end_recv", "end_send2", "end_close", "end_kill"}
            /\ episode_existed
            /\ pc' \notin {"end_send1", "end_recv", "end_send2", "end_close",
                            "end_kill"})
        => (call'.kind # "raised" /\ ~episode_existed' /\ ~ConnOpen')]_vars

\* C13: terminating again a subprocess that has been terminated already is
\* a no-op: while end_episode runs with no episode in place and the
\* subprocess already signalled, nothing raises, nothing is sent and the
\* driver's attributes, the subprocesses and the connections stay as they
\* are.
C13TerminateTwice ==
    [][(pc \in {"end_send1", "end_recv", "end_send2", "end_close", "end_kill"}
            /\ frame.caller = "end_episode"
            /\ ~episode_existed
            /\ eplus_process # NoAttr /\ procs[eplus_process].signalled)
        => (call'.kind # "raised" /\ call'.sends = call.sends
            /\ UNCHANGED <<attrs, procs, conns>>)]_vars

\* C14 as stated: decoding what was encoded gives back the version, the
\* flag and the time exactly, and as many values in the same order, each
\* within a relative error of 1e-12 of the one encoded.
C14RoundTripExact ==
    LET Whole(n) == IF n.digs = <<>> THEN <<"0">> ELSE n.digs \o Zeros(n.exp)
        Same(n, d) == n.neg = d.neg /\ Whole(n) = d.digs
        Close(n, d) ==
            /\ n.neg = d.neg
            /\ Len(Whole(n)) = Len(d.digs)
            /\ \A i \in 1..Len(d.digs) : i <= 13 => Whole(n)[i] = d.digs[i]
    IN  (codec.op = "done" /\ codec.src.kind = "args")
        => /\ codec.msg.exc = "none"
           /\ codec.msg.version = codec.src.version
           /\ codec.msg.flag = codec.src.flag
           /\ Same(codec.msg.exact.curSimTim, codec.src.curSimTim)
           /\ Len(codec.msg.exact.Dblist) = Len(codec.src.Dblist)
           /\ \A i \in 1..Len(codec.src.Dblist) :
                Close(codec.msg.exact.Dblist[i], codec.src.Dblist[i])

\* C14 as amended: decoding what was encoded gives back the version and the
\* flag exactly and as many values in the same order; the time and each
\* value come back within a relative error of 1e-12, and exactly when the
\* number encoded has no more than sixteen significant digits.
C14RoundTripSixteen ==
    LET Whole(n) == IF n.digs = <<>> THEN <<"0">> ELSE n.digs \o Zeros(n.exp)
        Same(n, d) == n.neg = d.neg /\ Whole(n) = d.digs
        Close(n, d) ==
            /\ n.neg = d.neg
            /\ Len(Whole(n)) = Len(d.digs)
            /\ \A i \in 1..Len(d.digs) : i <= 13 => Whole(n)[i] = d.digs[i]
        Back(n, d) ==
            /\ Close(n, d)
            /\ Len(StripZerosRight(d.digs)) <= 16 => Same(n, d)
    IN  (codec.op = "done" /\ codec.src.kind = "args")
        => /\ codec.msg.exc = "none"
           /\ codec.msg.version = codec.src.version
           /\ codec.msg.flag = codec.src.flag
           /\ Back(codec.msg.exact.curSimTim, codec.src.curSimTim)
           /\ Len(codec.msg.exact.Dblist) = Len(codec.src.Dblist)
           /\ \A i \in 1..Len(codec.src.Dblist) :
                Back(codec.msg.exact.Dblist[i], codec.src.Dblist[i])

\* a time of seventeen digits was encoded with two different values and
\* decoded to a time of no more than sixteen digits and two values
C14Witness ==
    /\ codec.op = "done" /\ codec.src.kind = "args"
    /\ codec.msg.exc = "none"
    /\ Len(codec.src.Dblist) = 2 /\ Len(codec.msg.exact.Dblist) = 2
    /\ codec.src.Dblist[1] # codec.src.Dblist[2]
    /\ codec.src.curSimTim \in Seventeen
    /\ Len(codec.msg.exact.curSimTim.digs) <= 16

\* C15: the decoder never returns a message for a malformed line: one with
\* fewer than six fields, with a header field that is not a number, or with
\* a value field that is not a float makes the call raise.
C15MalformedRaises ==
    (codec.op = "done" /\ codec.src.kind = "text"
        /\ (\/ Len(codec.src.tokens) < 6
            \/ \E i \in 1..Len(codec.src.tokens) :
                 \/ i <= 5 /\ codec.src.tokens[i] \notin IntTokens
                 \/ i >= 6 /\ codec.src.tokens[i] \notin FloatTokens))
    => codec.msg.exc # "none"

\* C16: the values returned for a received line are exactly the value fields
\* that follow its six header fields, in order, none dropped and none added,
\* whether or not a separator follows the last of them.
C16AllValuesReturned ==
    (codec.op = "done" /\ codec.src.kind = "text"
        /\ Len(codec.src.tokens) >= 6
        /\ \A i \in 1..Len(codec.src.tokens) :
             codec.src.tokens[i] \in (IF i <= 5 THEN IntTokens ELSE FloatTokens))
    => (/\ codec.msg.exc = "none"
        /\ codec.msg.Dblist =
             TokenValues(SubSeq(codec.src.tokens, 7, Len(codec.src.tokens))))

\* C17: the connection a reset accepts, and the episode then uses, was
\* dialled by the subprocess which that reset spawned; a connection dialled
\* a second time, or by the subprocess of an earlier episode, is never the
\* connection of an episode.
C17OwnConnection ==
    /\ pc = "reset_recv" => conns[frame.conn].peer = eplus_process
    /\ (episode_existed /\ conn # None) => conns[conn].peer = eplus_process

\* C18: every episode started by reset gets an index strictly greater than
\* that of the episode before it: when a reset returns a first observation
\* and a handshake had already succeeded before that reset, the episode
\* counter, which started at 0, is at least 1.
C18IndexIncreases ==
    [][(pc = "reset_recv" /\ call'.op = "reset" /\ call'.kind = "returned"
            /\ eplus_msg_header # NoHeader)
        => epi_num' >= 1]_vars

\* C19: once a call of end_env is over, from whatever state it was made,
\* the listening socket is closed, no accepted connection is open and no
\* subprocess is running without having been signalled.
C19EndEnvCloses ==
    (pc = "idle" /\ call.op = "end_env")
    => (/\ ~socket_open
        /\ \A c \in 1..Len(conns) : conns[c].drv # "open"
        /\ \A p \in 1..Len(procs) :
             procs[p].state = "running" => procs[p].signalled)

\* C20: the steps of a teardown happen in this order and no other: the
\* terminate message (flag 1, the last action, the time cursor) is sent,
\* one acknowledgement is received, the identical message is sent a second
\* time, the connection is closed, and only then is the process group of
\* the subprocess signalled; no subprocess is signalled while the
\* connection is held and nothing is sent after the close.
C20TeardownOrder ==
    [][/\ (pc = "end_send1" /\ pc' \notin {pc, "idle"})
            => /\ pc' = "end_recv"
               /\ call'.sends = call.sends + 1
               /\ conns'[conn].drv = "open"
               /\ conns'[conn].out =
                    assembleMsg(eplus_msg_header[1], 1, Len(last_action),
                                0, 0, curSimTim, last_action)
               /\ UNCHANGED <<attrs, procs>>
       /\ (pc = "end_recv" /\ pc' # pc)
            => /\ pc' = "end_send2"
               /\ conns'[conn].inbox =
                    (IF conns[conn].inbox = <<>> THEN <<>>
                     ELSE Tail(conns[conn].inbox))
               /\ UNCHANGED <<attrs, procs, call>>
       /\ (pc = "end_send2" /\ pc' \notin {pc, "idle"})
            => /\ pc' = "end_close"
               /\ call'.sends = call.sends + 1
               /\ call'.sends % 2 = 0
               /\ conns'[conn].drv = "open"
               /\ conns'[conn].out =
                    assembleMsg(eplus_msg_header[1], 1, Len(last_action),
                                0, 0, curSimTim, last_action)
               /\ UNCHANGED <<attrs, procs>>
       /\ (pc = "end_close" /\ pc' # pc)
            => /\ pc' = "end_kill"
               /\ conns'[conn].drv = "closed"
               /\ conn' = None
               /\ UNCHANGED <<procs, call>>
       /\ (\E p \in 1..Len(procs) : procs'[p].signalled /\ ~procs[p].signalled)
            => /\ pc = "end_kill"
               /\ conn = None
               /\ call.sends >= 2 /\ call.sends % 2 = 0
               /\ procs'[eplus_process].signalled
               /\ (call.op = "reset" /\ call.accepted # None)
                    => conns[call.accepted].drv = "closed"
       /\ pc \in {"end_recv", "end_close", "end_kill"}
            => call'.sends = call.sends]_vars

\* an end_episode has returned after a whole teardown: two sends, the
\* connection forgotten, the subprocess signalled
C20Witness ==
    /\ pc = "idle" /\ call.op = "end_episode" /\ call.kind = "returned"
    /\ call.sends = 2
    /\ conn = None
    /\ procs[eplus_process].signalled
    /\ ~episode_existed

\* C21: on the connection of an episode the simulator speaks first and the
\* driver's receives and sends alternate: the first operation is a receive,
\* every send follows a receive and every later receive follows a send, so
\* between calls no message of the driver is left without a receive after
\* it (but the second terminate message, after which the connection is
\* closed).
C21Alternates ==
    [][/\ call'.sends = call.sends + 1
            => /\ conn # None
               /\ conns[conn].last = "recv"
               /\ conns'[conn].last = "send"
       /\ (pc \in {"reset_recv", "step_recv", "end_recv"} /\ pc' # pc)
            => /\ conns[Reading].last = (IF pc = "reset_recv" THEN "none" ELSE "send")
               /\ conns'[Reading].last = "recv"
       /\ (pc' = "idle" /\ episode_existed' /\ conn' # None)
            => conns'[conn'].last = "recv"]_vars

\* a step of two repetitions has returned: two sends, each followed by a
\* receive
C21Witness ==
    /\ pc = "idle" /\ call.op = "step" /\ call.kind = "returned"
    /\ call.sends = 2 /\ Len(call.rcvd) = 2
    /\ conns[conn].last = "recv"

\* C22: within a reset the prior episode, if there is one, is torn down,
\* then socket.cfg is written into the working directory, then the
\* subprocess is spawned, then one connection is accepted, then the
\* handshake is read: a subprocess is spawned only when the file exists
\* and the prior episode's connection has been closed.
C22ResetOrder ==
    [][/\ (frame'.cfg /\ ~frame.cfg)
            => /\ pc = "reset_cfg" /\ pc' = "reset_spawn"
               /\ call.op = "reset"
               /\ ~episode_existed
               /\ conn \in {NoAttr, None}
               /\ call.spawned = None /\ call.accepted = None
       /\ Len(procs') # Len(procs)
            => /\ pc = "reset_spawn" /\ pc' = "reset_accept"
               /\ frame.cfg
               /\ ~episode_existed
               /\ conn \in {NoAttr, None}
               /\ \A c \in 1..Len(conns) :
                    conns[c].drv = "open" => c \notin {conn, call.accepted}
               /\ Len(procs') = Len(procs) + 1
               /\ procs'[Len(procs')].cfg
               /\ call.spawned = None /\ call'.spawned = Len(procs')
       /\ (pc = "reset_accept" /\ pc' # pc)
            => /\ pc' = "reset_recv"
               /\ call.spawned = eplus_process
               /\ call.accepted = None /\ call'.accepted # None
               /\ frame'.conn = call'.accepted
               /\ Len(backlog') = Len(backlog) - 1
       /\ (pc = "reset_recv" /\ pc' # pc)
            => /\ call.accepted = frame.conn
               /\ Len(call'.rcvd) + Len(call.rcvd) <= 1
               /\ call'.kind = "raised" \/ Len(call'.rcvd) = 1]_vars

\* a reset that tore down a prior episode has written the file, spawned the
\* second subprocess, accepted a connection and returned a first observation
C22Witness ==
    /\ pc = "idle" /\ call.op = "reset" /\ call.kind = "returned"
    /\ epi_num = 1
    /\ call.spawned = 2 /\ procs[2].cfg
    /\ call.accepted # None
    /\ Len(call.rcvd) = 1
    /\ procs[1].signalled

\* C23 as stated: every message the driver sends carries the version of the
\* episode's handshake and, as elapsedTime, the elapsedTime of the message
\* most recently received in that episode; a step message carries flag 0
\* and the action, a terminate message flag 1 and the last action.
C23LatestTimeSent ==
    [][call'.sends = call.sends + 1
        => /\ eplus_msg_header[1] = PeerVersion
           /\ conns'[conn].out =
                IF pc = "step_send"
                THEN assembleMsg(eplus_msg_header[1], 0, Len(frame.action),
                                 0, 0, conns[conn].heard, frame.action)
                ELSE assembleMsg(eplus_msg_header[1], 1, Len(last_action),
                                 0, 0, conns[conn].heard, last_action)]_vars

\* C23 as amended: every message the driver sends carries the version of
\* the episode's handshake and, as elapsedTime, the driver's time cursor: the
\* first message of a step and both terminate messages carry the stored
\* cursor, which a reset or step that returns sets to the time of the last
\* message it decoded, and a later message of a step carries the time of
\* the message decoded just before it; a step message carries flag 0 and
\* the action, a terminate message flag 1 and the last action.
C23CursorSent ==
    [][/\ call'.sends = call.sends + 1
            => /\ eplus_msg_header[1] = PeerVersion
               /\ pc \in {"step_send", "end_send1", "end_send2"}
               /\ pc = "step_send"
                    => /\ conns'[conn].out =
                            assembleMsg(eplus_msg_header[1], 0,
                                        Len(frame.action), 0, 0,
                                        frame.curSimTim, frame.action)
                       /\ frame.curSimTim =
                            (IF frame.act_repeat_i = 0 THEN curSimTim
                             ELSE conns[conn].heard)
               /\ pc # "step_send"
                    => conns'[conn].out =
                         assembleMsg(eplus_msg_header[1], 1, Len(last_action),
                                     0, 0, curSimTim, last_action)
       /\ (pc' = "idle" /\ call'.kind = "returned" /\ ~call'.isNone
              /\ call'.op \in {"reset", "step"} /\ call' # call)
            => /\ curSimTim' = call'.time
               /\ call'.time = call'.rcvd[Len(call'.rcvd)]]_vars

\* the second terminate message has been sent with the stored cursor after
\* an acknowledgement that carried another time
C23Witness ==
    /\ pc = "end_close"
    /\ conns[conn].last = "send"
    /\ conns[conn].heard >= 0
    /\ conns[conn].heard # curSimTim

\* C24: every message the decoder accepts has as many values as the count
\* declared in its header.
C24InboundLength ==
    (codec.op = "done" /\ codec.msg.exc = "none")
    => Len(codec.msg.Dblist) = codec.msg.nDb

\* C25: what the driver sends in an episode depends on that episode's
\* handshake and steps only: the terminate message of an episode that a
\* reset ends at once, in which no step can have been taken, is the one a
\* newly constructed driver sends after the same handshake, with the
\* action of the constructor.
C25TerminateIndependent ==
    [][(pc = "end_send1" /\ frame.caller = "reset_terminal"
            /\ call'.sends = call.sends + 1)
        => conns'[conn].out =
             assembleMsg(eplus_msg_header[1], 1, Len(DefaultAction), 0, 0,
                         curSimTim, DefaultAction)]_vars

\* C26: the listening socket made at construction stays open through every
\* reset, step, end_episode and teardown, whether they return or raise;
\* only a call of end_env closes it, and the close at the end of an episode
\* closes the accepted connection of the episode and nothing else: the
\* connections waiting in the listen queue stay there.
C26ListenerKept ==
    [][/\ socket_open' # socket_open
            => /\ ~socket_open'
               /\ call.op = "end_env" /\ pc = "end_kill"
               /\ call'.kind = "returned"
       /\ (call'.op # "end_env" /\ call'.op # "none") => socket_open'
       /\ (pc = "end_close" /\ pc' # pc)
            => /\ socket_open' = socket_open
               /\ backlog' = backlog
               /\ \A c \in 1..Len(conns) :
                    c # conn => conns'[c] = conns[c]
               /\ conns[conn].drv = "open" /\ conns'[conn].drv = "closed"]_vars

\* a second episode has been ended by end_episode and the listening socket
\* is still open
C26Witness ==
    /\ pc = "idle" /\ call.op = "end_episode" /\ call.kind = "returned"
    /\ epi_num = 1
    /\ Len(procs) = 2
    /\ socket_open

\* C27: each spawn starts exactly two log threads, one on the standard
\* output and one on the standard error of the new subprocess, and nothing
\* else starts one; a step of a thread or of a pipe changes nothing of the
\* driver, of the subprocesses or of the connections, and a step of the
\* driver other than the spawn changes no pipe and no thread; a thread ends
\* only at the end of its stream, when the pipe is empty and the subprocess
\* is gone, and from then on, while it has not ended, it can always take
\* its next step and its pipe receives nothing more.
C27Drains ==
    /\ [][/\ Len(drains') = Len(procs') /\ Len(drains) = Len(procs)
          /\ Len(procs') # Len(procs)
               => /\ pc = "reset_spawn"
                  /\ drains' = Append(drains, [out |-> [buf |-> 0, drain |-> "running"],
                                               err |-> [buf |-> 0, drain |-> "running"]])
          /\ (drains' # drains /\ Len(drains') = Len(drains))
               => UNCHANGED <<attrs, pc, frame, call, procs, conns, backlog>>
          /\ (pc' # pc \/ call' # call \/ frame' # frame)
               => \A p \in 1..Len(drains) : drains'[p] = drains[p]
          /\ \A p \in 1..Len(drains) : \A s \in Streams :
               /\ (drains'[p][s].drain = "done" /\ drains[p][s].drain = "running")
                    => /\ drains[p][s].buf = 0 /\ drains'[p][s].buf = 0
                       /\ procs[p].state # "running"
               /\ drains[p][s].drain = "done" => drains'[p][s] = drains[p][s]
               /\ procs[p].state # "running"
                    => drains'[p][s].buf <= drains[p][s].buf]_vars
    /\ [](\A p \in 1..Len(drains) : \A s \in Streams :
            (procs[p].state # "running" /\ drains[p][s].drain = "running")
            => ENABLED (DrainRead(p, s) \/ DrainEnd(p, s)))

\* the first subprocess has been signalled and both its threads have ended;
\* the second episode has taken a step while a line of its subprocess was
\* waiting to be logged
C27Witness ==
    /\ pc = "idle" /\ call.op = "step" /\ call.kind = "returned" /\ ~call.isNone
    /\ Len(procs) = 2
    /\ procs[1].signalled
    /\ drains[1]["out"].drain = "done" /\ drains[1]["err"].drain = "done"
    /\ drains[2]["out"].buf = 1 /\ drains[2]["err"].drain = "running"

\* C28: once reset has been called on a MultiObsWrapper, its history holds
\* exactly n observations: after k steps, the most recent min(k, n) step
\* observations in arrival order, preceded by n - min(k, n) copies of the
\* observation the latest reset started from (so nothing older than that
\* reset); and the history is never longer than n.
C28BoundedHistory ==
    /\ Len(multi.history) <= multi.n
    /\ multi.reset =>
         LET k == Len(multi.steps)
             kept == IF k < multi.n THEN k ELSE multi.n
         IN  /\ Len(get_obs) = multi.n
             /\ \A i \in 1..multi.n :
                   get_obs[i] = IF i <= multi.n - kept
                                THEN multi.obs
                                ELSE multi.steps[k - multi.n + i]

\* after a reset, more steps than the window holds have been taken, the
\* first of them with an observation that is no longer in the window
C28Witness ==
    /\ multi.reset
    /\ multi.n >= 2
    /\ Len(multi.steps) > multi.n
    /\ multi.steps[1] \notin {get_obs[i] : i \in 1..Len(get_obs)}
    /\ multi.obs \in {get_obs[i] : i \in 1..Len(get_obs)}

\* C30: between calls, also after a call that failed, the episode-exists
\* flag is true exactly when the driver holds an accepted connection it has
\* not closed and a reference to a subprocess it has not signalled; and once
\* a teardown has been entered, a false flag comes with a cleared connection
\* reference.
C30Representation ==
    pc = "idle" =>
      /\ episode_existed <=>
            /\ conn \notin {NoAttr, None}
            /\ conns[conn].drv = "open"
            /\ eplus_process # NoAttr
            /\ ~procs[eplus_process].signalled
      /\ (~episode_existed /\ conn # NoAttr) => conn = None

\* C29: the summary of every episode started by a reset of the
\* LoggerWrapper is recorded exactly once, tagged with the episode's index,
\* no later than the next reset or the close: when reset or close is called
\* while the driver's subprocess is one whose episode has started (an
\* episode exists, or the call before was a reset that returned or a step
\* that exchanged a message), the log holds, as soon as the wrapper has done
\* its recording, exactly one summary of that episode, tagged with the
\* current episode index.
C29SummaryOnce ==
    [][(/\ pc = "idle"
        /\ call'.kind = "running"
        /\ call'.op \in {"reset", "end_env"}
        /\ \/ episode_existed
           \/ /\ call.kind = "returned"
              /\ \/ call.op = "reset"
                 \/ call.op = "step" /\ ~call.isNone)
       => /\ Cardinality({i \in 1..Len(logger') :
                            logger'[i].proc = eplus_process}) = 1
          /\ \A i \in 1..Len(logger') :
                logger'[i].proc = eplus_process
                  => logger'[i].episode = epi_num]_vars

====
